---- MODULE Spec2Model ----
(***************************************************************************)
(* A model of the `wait` command of clawtan (src/clawtan/cli.py, cmd_wait) *)
(* : the wait-start baseline fetch, the status poll loop with its phase    *)
(* notices and deadline, the game-over report and the turn briefing.       *)
(*                                                                         *)
(* The transport (_req/_get) either returns a JSON document or raises      *)
(* APIError(code, detail); every fetch of the model draws one of these      *)
(* outcomes.  Time is counted in ticks of the monotonic clock; the poll    *)
(* interval is at least one tick.                                          *)
(***************************************************************************)
EXTENDS Integers, Sequences, FiniteSets, TLC

\* ------------------------------------------------------------------ bounds
MaxTimeout == 2      \* largest --timeout, in ticks
MaxPoll == 1         \* largest --poll, in ticks
MaxFetchTime == 1    \* longest duration of one fetch, in ticks
MaxHist == 1         \* longest action_records sequence of a snapshot
MaxChat == 1         \* largest number of chat messages of a chat document
MaxCount == 1        \* largest value stored under one player_state key

TimeCap == MaxTimeout + MaxPoll + MaxFetchTime  \* the clock saturates here
CountCap == MaxTimeout + 3                      \* the counters saturate here

Min(a, b) == IF a < b THEN a ELSE b

\* ---------------------------------------------------------------- documents
Null == "null"
Colors == {"RED", "BLUE"}
MyColor == "RED"
NotFoundCode == 404
ErrorCodes == {0, 404, 500}

StatusDocs ==
    [started : BOOLEAN, your_turn : BOOLEAN, winning_color : Colors \cup {Null},
     current_color : Colors, players_joined : 1..2]

NoStatus ==
    [started |-> FALSE, your_turn |-> FALSE, winning_color |-> Null,
     current_color |-> "RED", players_joined |-> 1]

FetchResults ==
    [kind : {"ok"}, code : {200}, status : StatusDocs]
    \cup [kind : {"error"}, code : ErrorCodes, status : {NoStatus}]

NoResult == [kind |-> "none", code |-> 0, status |-> NoStatus]

ColorSeqs == {<<>>, <<"BLUE">>, <<"BLUE", "RED">>}

\* player_state is a flat mapping; the key "P{i}_{FIELD}" is the pair <<i, FIELD>>
\* and a key that is absent stands for zero
PKey(i, field) == <<i, field>>
Get(ps, key, default) == IF key \in DOMAIN ps THEN ps[key] ELSE default
PlayerStatesOver(keys) == UNION {[K -> 1..MaxCount] : K \in SUBSET keys}
NoKeys == CHOOSE f \in PlayerStatesOver({}) : TRUE

ChestKeys == {PKey(i, "TREASURE_CHESTS") : i \in 0..1}

Snapshots ==
    [started : BOOLEAN, colors : ColorSeqs, nrecords : 0..MaxHist,
     has_actions : BOOLEAN, has_robber : BOOLEAN,
     player_state : PlayerStatesOver(ChestKeys)]

NoSnapshot ==
    [started |-> FALSE, colors |-> <<>>, nrecords |-> 0,
     has_actions |-> FALSE, has_robber |-> FALSE, player_state |-> NoKeys]

\* a state fetch: failed, or the snapshot it returned
StateFetches == [ok : {TRUE}, state : Snapshots] \cup [ok : {FALSE}, state : {NoSnapshot}]
\* a chat fetch: failed, or the number of messages it returned
ChatFetches == [ok : {TRUE}, count : 0..MaxChat] \cup [ok : {FALSE}, count : {0}]

Terminals == {"MY_TURN", "GAME_OVER", "TIMEOUT", "NOT_FOUND"}

VARIABLES
    pc,            \* position of cmd_wait
    terminal,      \* "NONE" or the terminal state of the waiter
    exitCode,      \* -1 while running, then the exit status of the process
    deadline,      \* time.monotonic() + args.timeout, taken at start (now = 0)
    poll,          \* args.poll
    now,           \* the monotonic clock
    history_len,   \* wait-start length of action_records
    chat_since,    \* wait-start number of chat messages
    baseline,      \* how the wait-start baseline fetch ended
    phase_shown,   \* "none", "lobby" or "turn"
    lastResult,    \* result of the latest status fetch
    emitted,       \* phase notices printed by the latest poll iteration
    notices,       \* all phase notices printed so far (stderr)
    nFetch,        \* number of status fetches made
    nSleep,        \* number of poll sleeps made
    chat_result,   \* how the new-chat fetch of the briefing ended
    brief,         \* the state fetch of the briefing or of the final scores
    out,           \* sections printed on stdout
    winner,        \* the winner taken from the status at game over
    score_lines,   \* the lines of the "Final Scores" section
    history_shown, \* the positions of the records of "Recent Actions"
    call,          \* a direct call of a report function: its name and stage
    input,         \* the arguments of that call
    output         \* the lines that call printed

fnVars == <<call, input, output>>

vars == <<pc, terminal, exitCode, deadline, poll, now, history_len, chat_since,
          baseline, phase_shown, lastResult, emitted, notices, nFetch, nSleep,
          chat_result, brief, out, winner, score_lines, history_shown,
          call, input, output>>

NoFetch == [ok |-> FALSE, state |-> NoSnapshot]

Init ==
    /\ pc = "baseline"
    /\ terminal = "NONE"
    /\ exitCode = -1
    /\ deadline \in 0..MaxTimeout
    /\ poll \in 1..MaxPoll
    /\ now = 0
    /\ history_len = 0
    /\ chat_since = 0
    /\ baseline = "pending"
    /\ phase_shown = "none"
    /\ lastResult = NoResult
    /\ emitted = <<>>
    /\ notices = <<>>
    /\ nFetch = 0
    /\ nSleep = 0
    /\ chat_result = "pending"
    /\ brief = NoFetch
    /\ out = <<>>
    /\ winner = Null
    /\ score_lines = <<>>
    /\ history_shown = <<>>
    /\ call = "none"
    /\ input = <<>>
    /\ output = <<>>

\* ------------------------------------------------- wait-start baseline fetch
\* The values of history_len and chat_since after the try block of the
\* baseline: a failed state fetch leaves both at 0, a failed chat fetch leaves
\* chat_since at 0 and keeps the history length already taken.
BaselineValues(sf, cf) ==
    IF ~sf.ok THEN [history_len |-> 0, chat_since |-> 0, how |-> "state_failed"]
    ELSE LET h == IF sf.state.started THEN sf.state.nrecords ELSE 0 IN
         IF ~cf.ok THEN [history_len |-> h, chat_since |-> 0, how |-> "chat_failed"]
         ELSE [history_len |-> h, chat_since |-> cf.count, how |-> "ok"]

Baseline ==
    /\ pc = "baseline"
    /\ \E sf \in StateFetches, cf \in ChatFetches, d \in 0..MaxFetchTime :
         LET b == BaselineValues(sf, cf) IN
         /\ sf.state.has_actions = FALSE /\ sf.state.has_robber = FALSE
         /\ sf.state.colors = <<>> /\ sf.state.player_state = NoKeys
         /\ history_len' = b.history_len
         /\ chat_since' = b.chat_since
         /\ baseline' = b.how
         /\ now' = Min(now + d, TimeCap)
    /\ pc' = "poll"
    /\ UNCHANGED <<terminal, exitCode, deadline, poll, phase_shown, lastResult,
                   emitted, notices, nFetch, nSleep, chat_result, brief, out,
                   winner, score_lines, history_shown>>
    /\ UNCHANGED fnVars

\* ------------------------------------------------------------ the poll loop
\* variants of the except branch: a not-found that is retried like any other
\* failure, a deadline test that is off by one tick, and a timeout report
\* that does not leave the loop
OnFetchError_Retry404(code, t, dl) ==
    IF t >= dl
    THEN [terminal |-> "TIMEOUT", pc |-> "done", exitCode |-> 1]
    ELSE [terminal |-> "NONE", pc |-> "sleep", exitCode |-> -1]

OnFetchError_LateTimeout(code, t, dl) ==
    IF code = 404
    THEN [terminal |-> "NOT_FOUND", pc |-> "done", exitCode |-> 1]
    ELSE IF t > dl
         THEN [terminal |-> "TIMEOUT", pc |-> "done", exitCode |-> 1]
         ELSE [terminal |-> "NONE", pc |-> "sleep", exitCode |-> -1]

OnFetchError_NoExit(code, t, dl) ==
    IF code = 404
    THEN [terminal |-> "NOT_FOUND", pc |-> "done", exitCode |-> 1]
    ELSE IF t >= dl
         THEN [terminal |-> "TIMEOUT", pc |-> "sleep", exitCode |-> -1]
         ELSE [terminal |-> "NONE", pc |-> "sleep", exitCode |-> -1]

\* except APIError branch of the loop
OnFetchError(code, t, dl) ==
    IF code = NotFoundCode
    THEN [terminal |-> "NOT_FOUND", pc |-> "done", exitCode |-> 1]
    ELSE IF t >= dl
         THEN [terminal |-> "TIMEOUT", pc |-> "done", exitCode |-> 1]
         ELSE [terminal |-> "NONE", pc |-> "sleep", exitCode |-> -1]

LobbyNotice(status) ==
    [label |-> "lobby", pj |-> status.players_joined, cur |-> Null]
TurnNotice(status) ==
    [label |-> "turn", pj |-> 0, cur |-> status.current_color]

\* variants of the progress block: one that forgets to record the turn phase,
\* and one that reports a phase only while nothing has been shown yet
Progress_NoMark(status, shown) ==
    IF ~status.started
    THEN IF shown # "lobby"
         THEN [printed |-> <<LobbyNotice(status)>>, phase_shown |-> "lobby"]
         ELSE [printed |-> <<>>, phase_shown |-> shown]
    ELSE IF shown # "turn"
         THEN [printed |-> <<TurnNotice(status)>>, phase_shown |-> shown]
         ELSE [printed |-> <<>>, phase_shown |-> shown]

Progress_OnceEver(status, shown) ==
    IF shown # "none"
    THEN [printed |-> <<>>, phase_shown |-> shown]
    ELSE IF ~status.started
         THEN [printed |-> <<LobbyNotice(status)>>, phase_shown |-> "lobby"]
         ELSE [printed |-> <<TurnNotice(status)>>, phase_shown |-> "turn"]

\* the progress-message block: the notice printed (if any) and the new
\* value of phase_shown
Progress(status, shown) ==
    IF ~status.started
    THEN IF shown # "lobby"
         THEN [printed |-> <<LobbyNotice(status)>>, phase_shown |-> "lobby"]
         ELSE [printed |-> <<>>, phase_shown |-> shown]
    ELSE IF shown # "turn"
         THEN [printed |-> <<TurnNotice(status)>>, phase_shown |-> "turn"]
         ELSE [printed |-> <<>>, phase_shown |-> shown]

\* a variant of the loop body that looks at your_turn before winning_color
OnStatus_TurnFirst(status, shown, t, dl) ==
    LET p == Progress(status, shown) IN
    IF status.your_turn
    THEN [terminal |-> "MY_TURN", pc |-> "briefing", exitCode |-> -1,
          printed |-> p.printed, phase_shown |-> p.phase_shown, out |-> <<>>]
    ELSE IF status.winning_color # Null
         THEN [terminal |-> "GAME_OVER", pc |-> "final_scores", exitCode |-> -1,
               printed |-> <<>>, phase_shown |-> shown,
               out |-> <<"GAME OVER", "Winner">>]
         ELSE IF t >= dl
              THEN [terminal |-> "TIMEOUT", pc |-> "done", exitCode |-> 1,
                    printed |-> p.printed, phase_shown |-> p.phase_shown,
                    out |-> <<>>]
              ELSE [terminal |-> "NONE", pc |-> "sleep", exitCode |-> -1,
                    printed |-> p.printed, phase_shown |-> p.phase_shown,
                    out |-> <<>>]

\* a variant that looks at the deadline before it looks at your_turn
OnStatus_DeadlineFirst(status, shown, t, dl) ==
    IF status.winning_color # Null
    THEN [terminal |-> "GAME_OVER", pc |-> "final_scores", exitCode |-> -1,
          printed |-> <<>>, phase_shown |-> shown,
          out |-> <<"GAME OVER", "Winner">>]
    ELSE LET p == Progress(status, shown) IN
         IF t >= dl
         THEN [terminal |-> "TIMEOUT", pc |-> "done", exitCode |-> 1,
               printed |-> p.printed, phase_shown |-> p.phase_shown,
               out |-> <<>>]
         ELSE IF status.your_turn
              THEN [terminal |-> "MY_TURN", pc |-> "briefing", exitCode |-> -1,
                    printed |-> p.printed, phase_shown |-> p.phase_shown,
                    out |-> <<>>]
              ELSE [terminal |-> "NONE", pc |-> "sleep", exitCode |-> -1,
                    printed |-> p.printed, phase_shown |-> p.phase_shown,
                    out |-> <<>>]

\* the body of the loop after a successful status fetch
OnStatus(status, shown, t, dl) ==
    IF status.winning_color # Null
    THEN [terminal |-> "GAME_OVER", pc |-> "final_scores", exitCode |-> -1,
          printed |-> <<>>, phase_shown |-> shown,
          out |-> <<"GAME OVER", "Winner">>]
    ELSE LET p == Progress(status, shown) IN
         IF status.your_turn
         THEN [terminal |-> "MY_TURN", pc |-> "briefing", exitCode |-> -1,
               printed |-> p.printed, phase_shown |-> p.phase_shown, out |-> <<>>]
         ELSE IF t >= dl
              THEN [terminal |-> "TIMEOUT", pc |-> "done", exitCode |-> 1,
                    printed |-> p.printed, phase_shown |-> p.phase_shown,
                    out |-> <<>>]
              ELSE [terminal |-> "NONE", pc |-> "sleep", exitCode |-> -1,
                    printed |-> p.printed, phase_shown |-> p.phase_shown,
                    out |-> <<>>]

PollStatus ==
    /\ pc = "poll"
    /\ \E r \in FetchResults, d \in 0..MaxFetchTime :
         LET t == Min(now + d, TimeCap) IN
         /\ now' = t
         /\ lastResult' = r
         /\ nFetch' = Min(nFetch + 1, CountCap)
         /\ IF r.kind = "error"
            THEN LET e == OnFetchError(r.code, t, deadline) IN
                 /\ terminal' = e.terminal
                 /\ pc' = e.pc
                 /\ exitCode' = e.exitCode
                 /\ emitted' = <<>>
                 /\ UNCHANGED <<phase_shown, notices, out, winner>>
            ELSE LET s == OnStatus(r.status, phase_shown, t, deadline) IN
                 /\ terminal' = s.terminal
                 /\ pc' = s.pc
                 /\ exitCode' = s.exitCode
                 /\ emitted' = s.printed
                 /\ notices' = notices \o s.printed
                 /\ phase_shown' = s.phase_shown
                 /\ out' = out \o s.out
                 /\ winner' = (IF s.terminal = "GAME_OVER"
                               THEN r.status.winning_color ELSE winner)
    /\ UNCHANGED <<deadline, poll, history_len, chat_since, baseline, nSleep,
                   chat_result, brief, score_lines, history_shown>>
    /\ UNCHANGED fnVars

\* a variant whose sleep does not hand control back to the loop
Sleep_NoReturn ==
    /\ pc = "sleep"
    /\ now' = Min(now + poll, TimeCap)
    /\ nSleep' = Min(nSleep + 1, CountCap)
    /\ pc' = "sleep"
    /\ UNCHANGED <<terminal, exitCode, deadline, poll, history_len, chat_since,
                   baseline, phase_shown, lastResult, emitted, notices, nFetch,
                   chat_result, brief, out, winner, score_lines, history_shown>>
    /\ UNCHANGED fnVars

Sleep ==
    /\ pc = "sleep"
    /\ now' = Min(now + poll, TimeCap)
    /\ nSleep' = Min(nSleep + 1, CountCap)
    /\ pc' = "poll"
    /\ UNCHANGED <<terminal, exitCode, deadline, poll, history_len, chat_since,
                   baseline, phase_shown, lastResult, emitted, notices, nFetch,
                   chat_result, brief, out, winner, score_lines, history_shown>>
    /\ UNCHANGED fnVars

\* --------------------------------------------------------------- game over
\* the final-scores block: printed only when the state fetch succeeds
FinalScoresOutput(sf) == IF sf.ok THEN <<"Final Scores">> ELSE <<>>

\* a variant of the score lines that marks the first line instead of the
\* winner's
FinalScoresLines_MarkFirst(sf, w) ==
    IF ~sf.ok THEN <<>>
    ELSE [i \in 1..Len(sf.state.colors) |->
            [color |-> sf.state.colors[i],
             vp |-> Get(sf.state.player_state, PKey(i - 1, "TREASURE_CHESTS"), 0),
             marked |-> (i = 1)]]

\* the lines of the final-scores block: one per color, in colors order, with
\* the victory points of its position and the winner marker
FinalScoresLines(sf, w) ==
    IF ~sf.ok THEN <<>>
    ELSE [i \in 1..Len(sf.state.colors) |->
            [color |-> sf.state.colors[i],
             vp |-> Get(sf.state.player_state, PKey(i - 1, "TREASURE_CHESTS"), 0),
             marked |-> (sf.state.colors[i] = w)]]

FinalScores ==
    /\ pc = "final_scores"
    /\ \E sf \in StateFetches :
         /\ sf.state.nrecords = 0 /\ ~sf.state.has_actions /\ ~sf.state.has_robber
         /\ sf.ok => sf.state.started
         /\ brief' = sf
         /\ out' = out \o FinalScoresOutput(sf)
         /\ score_lines' = FinalScoresLines(sf, winner)
    /\ pc' = "done"
    /\ exitCode' = 0
    /\ UNCHANGED <<terminal, deadline, poll, now, history_len, chat_since,
                   baseline, phase_shown, lastResult, emitted, notices, nFetch,
                   nSleep, chat_result, winner, history_shown>>
    /\ UNCHANGED fnVars

\* ------------------------------------------------------------ turn briefing
IsParticipant(state, color) == \E i \in 1..Len(state.colors) : state.colors[i] = color
HasOpponents(state, color) == \E i \in 1..Len(state.colors) : state.colors[i] # color

\* records[since:] of _print_history
Recent(records, since) == SubSeq(records, since + 1, Len(records))

\* the 0-based positions of the action records of a snapshot
Positions(state) == [i \in 1..state.nrecords |-> i - 1]

\* a variant of the history delta that ignores the wait-start length
BriefingHistory_Whole(state, hlen) == Recent(Positions(state), 0)

\* the records the briefing hands to the history section
BriefingHistory(state, hlen) ==
    IF hlen < state.nrecords THEN Recent(Positions(state), hlen) ELSE <<>>

\* a variant of the briefing in which a failed new-chat fetch ends the output
BriefingOutput_ChatAbort(state, color, hlen, cf) ==
    <<"YOUR TURN">>
    \o (IF IsParticipant(state, color) THEN <<"Your Status">> ELSE <<>>)
    \o (IF HasOpponents(state, color) THEN <<"Opponents">> ELSE <<>>)
    \o (IF hlen < state.nrecords THEN <<"Recent Actions">> ELSE <<>>)
    \o (IF ~cf.ok THEN <<>>
        ELSE (IF cf.count > 0 THEN <<"New Chat">> ELSE <<>>)
             \o (IF state.has_actions THEN <<"Available Actions">> ELSE <<>>)
             \o (IF state.has_robber THEN <<"Robber">> ELSE <<>>))

\* the sections of the briefing, in order, for a fetched snapshot and the
\* outcome of the new-chat fetch
BriefingOutput(state, color, hlen, cf) ==
    <<"YOUR TURN">>
    \o (IF IsParticipant(state, color) THEN <<"Your Status">> ELSE <<>>)
    \o (IF HasOpponents(state, color) THEN <<"Opponents">> ELSE <<>>)
    \o (IF hlen < state.nrecords THEN <<"Recent Actions">> ELSE <<>>)
    \o (IF cf.ok /\ cf.count > 0 THEN <<"New Chat">> ELSE <<>>)
    \o (IF state.has_actions THEN <<"Available Actions">> ELSE <<>>)
    \o (IF state.has_robber THEN <<"Robber">> ELSE <<>>)

Briefing ==
    /\ pc = "briefing"
    /\ \E sf \in StateFetches :
         /\ sf.ok => (sf.state.started /\ sf.state.player_state = NoKeys)
         /\ brief' = sf
         /\ IF ~sf.ok
            THEN \* APIError reaches main(): "ERROR (code): detail", exit 1
                 /\ exitCode' = 1
                 /\ UNCHANGED <<chat_result, out, history_shown>>
            ELSE \E cf \in ChatFetches :
                 /\ chat_result' = (IF cf.ok THEN "ok" ELSE "failed")
                 /\ history_shown' = BriefingHistory(sf.state, history_len)
                 /\ out' = out \o BriefingOutput(sf.state, MyColor, history_len, cf)
                 /\ exitCode' = 0
    /\ pc' = "done"
    /\ UNCHANGED <<terminal, deadline, poll, now, history_len, chat_since,
                   baseline, phase_shown, lastResult, emitted, notices, nFetch,
                   nSleep, winner, score_lines>>
    /\ UNCHANGED fnVars

Next == Baseline \/ PollStatus \/ Sleep \/ FinalScores \/ Briefing

Spec == Init /\ [][Next]_vars

\* the process keeps running: no step of cmd_wait is postponed forever
LiveSpec == Spec /\ WF_vars(Next)

TypeOK ==
    /\ pc \in {"baseline", "poll", "sleep", "final_scores", "briefing", "done"}
    /\ terminal \in Terminals \cup {"NONE"}
    /\ exitCode \in {-1, 0, 1}
    /\ now \in 0..TimeCap
    /\ phase_shown \in {"none", "lobby", "turn"}
    /\ Len(emitted) <= 1
\* ===================================================================
\* The report functions, called directly on drawn arguments
\* ===================================================================
MaxRecords == 2      \* longest action_records sequence handed to a report

\* no wait is running while a report function is called directly
WaitOff ==
    /\ pc = "off"
    /\ terminal = "NONE"
    /\ exitCode = -1
    /\ deadline = 0
    /\ poll = 1
    /\ now = 0
    /\ history_len = 0
    /\ chat_since = 0
    /\ baseline = "pending"
    /\ phase_shown = "none"
    /\ lastResult = NoResult
    /\ emitted = <<>>
    /\ notices = <<>>
    /\ nFetch = 0
    /\ nSleep = 0
    /\ chat_result = "pending"
    /\ brief = NoFetch
    /\ out = <<>>
    /\ winner = Null
    /\ score_lines = <<>>
    /\ history_shown = <<>>

waitVars == <<pc, terminal, exitCode, deadline, poll, now, history_len,
              chat_since, baseline, phase_shown, lastResult, emitted, notices,
              nFetch, nSleep, chat_result, brief, out, winner, score_lines,
              history_shown>>

\* JSON values of a record or of an action: null, "", an integer, a list of
\* two integers, a list of three integers
VNull == [tag |-> "null", items |-> <<>>]
VEmpty == [tag |-> "str", items |-> <<>>]
VInt(n) == [tag |-> "int", items |-> <<n>>]
VList(xs) == [tag |-> "list", items |-> xs]
RecordValues == {VNull, VEmpty, VInt(7), VList(<<3, 4>>), VList(<<1, 2, 3>>)}

RollType == "ROLL_THE_SHELLS"
RecordTypes == {RollType, "END_TIDE"}

\* an action record is a list [color, type] or [color, type, value], or
\* something that is not a list of at least two elements
ActionRecords ==
    [shape : {"list3"}, color : Colors, type : RecordTypes, value : RecordValues]
    \cup [shape : {"list2"}, color : Colors, type : RecordTypes, value : {VNull}]
    \cup [shape : {"other"}, color : {"RED"}, type : {"END_TIDE"}, value : {VNull}]

SeqsUpTo(S, n) == UNION {[1..k -> S] : k \in 0..n}

\* ---------------------------------------------------------- _print_history
SectionLine(title, n) ==
    [kind |-> "section", title |-> title, count |-> n, color |-> Null,
     type |-> Null, value |-> VNull]

\* the line of one record: "color: type value", "color: type" when the record
\* has no value, a null value or the value "", and the record itself when it
\* is not a list of at least two elements
HistoryLine(r) ==
    IF r.shape = "other"
    THEN [kind |-> "raw", title |-> Null, count |-> 0, color |-> Null,
          type |-> Null, value |-> VNull]
    ELSE LET val == IF r.shape = "list3" /\ r.value # VNull THEN r.value ELSE VEmpty IN
         IF val # VEmpty
         THEN [kind |-> "record_value", title |-> Null, count |-> 0,
               color |-> r.color, type |-> r.type, value |-> val]
         ELSE [kind |-> "record", title |-> Null, count |-> 0,
               color |-> r.color, type |-> r.type, value |-> VNull]

\* a variant that prints the section title also for an empty delta
PrintHistory_HeaderAlways(records, since) ==
    LET recent == Recent(records, since) IN
    <<SectionLine("Recent Actions", Len(recent))>>
    \o [k \in 1..Len(recent) |-> HistoryLine(recent[k])]

PrintHistory(records, since) ==
    LET recent == Recent(records, since) IN
    IF recent = <<>> THEN <<>>
    ELSE <<SectionLine("Recent Actions", Len(recent))>>
         \o [k \in 1..Len(recent) |-> HistoryLine(recent[k])]

HistoryInit ==
    /\ WaitOff
    /\ call = "print_history"
    /\ input \in UNION {[records : {rs}, since : 0..Len(rs)] :
                          rs \in SeqsUpTo(ActionRecords, MaxRecords)}
    /\ output = <<>>

CallPrintHistory ==
    /\ call = "print_history"
    /\ output' = PrintHistory(input.records, input.since)
    /\ call' = "print_history_done"
    /\ UNCHANGED input
    /\ UNCHANGED waitVars

HistoryNext == CallPrintHistory

HistorySpec == HistoryInit /\ [][HistoryNext]_vars

\* ------------------------------------------------------ _print_roll_result
MaxKeys == 2         \* largest number of keys present in one player_state

RESOURCES == <<"DRIFTWOOD", "CORAL", "SHRIMP", "KELP", "PEARL">>
InHand(r) == r \o "_IN_HAND"
ResourceKeys == {PKey(i, InHand(RESOURCES[k])) : i \in 0..1, k \in 1..Len(RESOURCES)}

\* the subsets of S that have at most n elements
SubsetsUpTo(S, n) ==
    UNION {{{f[i] : i \in 1..k} : f \in [1..k -> S]} : k \in 0..n}

SparseStates(keys) ==
    UNION {[K -> 1..MaxCount] : K \in SubsetsUpTo(keys, MaxKeys)}

RECURSIVE SumSeq(_)
SumSeq(xs) == IF xs = <<>> THEN 0 ELSE Head(xs) + SumSeq(Tail(xs))

RECURSIVE Flatten(_)
Flatten(ss) == IF ss = <<>> THEN <<>> ELSE Head(ss) \o Flatten(Tail(ss))

ColorSet(colors) == {colors[i] : i \in 1..Len(colors)}

\* the position (0-based) whose entry a dict keyed by color keeps for c
LastIndexOf(colors, c) ==
    (CHOOSE i \in 1..Len(colors) :
        colors[i] = c /\ \A j \in (i + 1)..Len(colors) : colors[j] # c) - 1

\* _all_player_resources: {color: {resource: count}} for every player
AllPlayerResources(state) ==
    [c \in ColorSet(state.colors) |->
        [k \in 1..Len(RESOURCES) |->
            Get(state.player_state,
                PKey(LastIndexOf(state.colors, c), InHand(RESOURCES[k])), 0)]]

NoResources == [none |-> TRUE, map |-> <<>>]

\* pre_resources of cmd_act for a dice roll: None when the state fetch fails
PreResources(sf) ==
    IF ~sf.ok THEN NoResources
    ELSE [none |-> FALSE, map |-> AllPlayerResources(sf.state)]

\* the truth value of pre_resources: None and the empty dict are false
Truthy(pre) == ~pre.none /\ DOMAIN pre.map # {}

\* a variant that takes the oldest dice-roll record
LastRoll_Oldest(records) ==
    LET rolls == {i \in 1..Len(records) :
                    records[i].shape # "other" /\ records[i].type = RollType}
    IN  IF rolls = {} THEN 0 ELSE CHOOSE i \in rolls : \A j \in rolls : i <= j

\* the index of the most recent dice-roll record, 0 when there is none
LastRoll(records) ==
    LET rolls == {i \in 1..Len(records) :
                    records[i].shape # "other" /\ records[i].type = RollType}
    IN  IF rolls = {} THEN 0 ELSE CHOOSE i \in rolls : \A j \in rolls : j <= i

\* the "Rolled:" line
RollLines(records) ==
    LET i == LastRoll(records)
        roll_val == IF i = 0 \/ records[i].shape # "list3" THEN VNull
                    ELSE records[i].value
    IN  IF roll_val = VNull THEN <<>>
        ELSE IF roll_val.tag = "list" /\ Len(roll_val.items) = 2
             THEN <<[kind |-> "rolled_sum", a |-> roll_val.items[1],
                     b |-> roll_val.items[2], total |-> SumSeq(roll_val.items)]>>
             ELSE <<[kind |-> "rolled", value |-> roll_val]>>

\* a variant that reports gains only
Gains_OnlyPositive(pre, post) ==
    Flatten([k \in 1..Len(RESOURCES) |->
        LET diff == post[k] - pre[k] IN
        IF diff > 0 THEN <<[sign |-> "+", n |-> diff, res |-> RESOURCES[k]]>>
        ELSE <<>>])

\* the entries of one player's line: "+N KIND" for a gain, "-N KIND" for a loss
Gains(pre, post) ==
    Flatten([k \in 1..Len(RESOURCES) |->
        LET diff == post[k] - pre[k] IN
        IF diff > 0 THEN <<[sign |-> "+", n |-> diff, res |-> RESOURCES[k]]>>
        ELSE IF diff < 0 THEN <<[sign |-> "-", n |-> 0 - diff, res |-> RESOURCES[k]]>>
        ELSE <<>>])

NoCards == [k \in 1..Len(RESOURCES) |-> 0]
CardsOf(map, c) == IF c \in DOMAIN map THEN map[c] ELSE NoCards

\* the "Resources Distributed" section
ResourceReport(state, pre) ==
    IF ~Truthy(pre) THEN <<>>
    ELSE LET post_resources == AllPlayerResources(state)
             lines == Flatten([i \in 1..Len(state.colors) |->
                 LET c == state.colors[i]
                     gains == Gains(CardsOf(pre.map, c), CardsOf(post_resources, c))
                 IN  IF gains # <<>>
                     THEN <<[kind |-> "gains", color |-> c, gains |-> gains]>>
                     ELSE <<>>])
         IN  <<[kind |-> "section", title |-> "Resources Distributed"]>>
             \o (IF lines = <<>> THEN <<[kind |-> "no_resources"]>> ELSE lines)

PrintRollResult(state, pre_resources) ==
    RollLines(state.action_records) \o ResourceReport(state, pre_resources)

RollStates(colorSeqs, playerStates, recordSeqs) ==
    [colors : colorSeqs, player_state : playerStates, action_records : recordSeqs]

\* the roll line: drawn records, no pre-action snapshot
RollInit ==
    /\ WaitOff
    /\ call = "print_roll_result"
    /\ input \in [state : RollStates({<<>>}, {NoKeys},
                                     SeqsUpTo(ActionRecords, MaxRecords)),
                  pre_fetch : {[ok |-> FALSE]}]
    /\ output = <<>>

\* the resource report: a drawn pre-action fetch and post-action snapshot of
\* the same players, no records
DiffInit ==
    /\ WaitOff
    /\ call = "print_roll_result"
    /\ \E st \in RollStates(ColorSeqs, SparseStates(ResourceKeys), {<<>>}) :
         input \in [state : {st},
                    pre_fetch : {[ok |-> FALSE]} \cup
                        [ok : {TRUE},
                         state : RollStates({st.colors},
                                            SparseStates(ResourceKeys), {<<>>})]]
    /\ output = <<>>

CallPrintRollResult ==
    /\ call = "print_roll_result"
    /\ output' = PrintRollResult(input.state, PreResources(input.pre_fetch))
    /\ call' = "print_roll_result_done"
    /\ UNCHANGED input
    /\ UNCHANGED waitVars

RollNext == CallPrintRollResult

RollSpec == RollInit /\ [][RollNext]_vars

DiffSpec == DiffInit /\ [][RollNext]_vars

\* ----------------------------------------------------------- _print_actions
MaxActions == 3      \* longest current_playable_actions list
WidthBudget == 120   \* the width of one line of options

\* the colour names of the drawn actions, in the order sorted() gives them
ColorOrder == <<"BLUE", "ORANGE", "RED">>

ActionTypes == {"END_TIDE", "BUILD_TIDE_POOL", "OCEAN_TRADE"}

Ones(n) == [i \in 1..n |-> 1]

\* payloads whose renderings have 4, 2, 97 and 101 characters
ActionValues == {VNull, VInt(12), VList(Ones(48)), VList(Ones(50))}

\* the legal actions: the agent's own [color, type, value] and [color, type],
\* one action with a null colour, one action of each other colour, and one
\* entry that is not a list
Actions ==
    [shape : {"list3"}, color : {MyColor}, type : ActionTypes, value : ActionValues]
    \cup [shape : {"list2"}, color : {MyColor}, type : ActionTypes, value : {VNull}]
    \cup [shape : {"list3"}, color : {Null}, type : {"BUILD_TIDE_POOL"},
          value : {VInt(12)}]
    \cup [shape : {"list3"}, color : {"BLUE", "ORANGE"}, type : {"END_TIDE"},
          value : {VInt(12)}]
    \cup [shape : {"other"}, color : {Null}, type : {"END_TIDE"}, value : {VNull}]

\* the action types that have a usage hint
ACTION_HINTS ==
    {"RELEASE_CATCH", "MOVE_THE_KRAKEN", "OCEAN_TRADE", "PLAY_BOUNTIFUL_HARVEST"}

RECURSIVE Join(_, _)
Join(ss, sep) ==
    IF ss = <<>> THEN ""
    ELSE IF Len(ss) = 1 THEN ss[1]
    ELSE ss[1] \o sep \o Join(Tail(ss), sep)

\* json.dumps(v, separators=(",", ":"))
JsonDumps(v) ==
    IF v.tag = "null" THEN "null"
    ELSE IF v.tag = "str" THEN "\"\""
    ELSE IF v.tag = "int" THEN ToString(v.items[1])
    ELSE "[" \o Join([i \in 1..Len(v.items) |-> ToString(v.items[i])], ",") \o "]"

\* isinstance(a, list) and len(a) > 1
IsList(a) == a.shape # "other"

\* the action is left to another player
IsOtherColor(a, my_color) ==
    IsList(a) /\ my_color # Null /\ a.color # Null /\ a.color # my_color

MyActions(actions, my_color) ==
    SelectSeq(actions, LAMBDA a : ~IsOtherColor(a, my_color))

OtherColors(actions, my_color) ==
    {actions[i].color :
        i \in {j \in 1..Len(actions) : IsOtherColor(actions[j], my_color)}}

\* a variant that names the first of the other colours only
SortedColors_FirstOnly(other_colors) ==
    Join(SubSeq(SelectSeq(ColorOrder, LAMBDA c : c \in other_colors), 1, 1), ", ")

\* ', '.join(sorted(other_colors))
SortedColors(other_colors) ==
    Join(SelectSeq(ColorOrder, LAMBDA c : c \in other_colors), ", ")

\* the key and the value an action is grouped under
TypeOf(a) == a.type
ValueOf(a) == IF a.shape = "list3" THEN a.value ELSE VNull

\* a variant that keeps a single group for all types
GroupAdd_MergeAll(grouped, atype, val) ==
    IF grouped # <<>>
    THEN [i \in 1..Len(grouped) |->
            IF i = 1
            THEN [grouped[i] EXCEPT !.values = Append(@, val)]
            ELSE grouped[i]]
    ELSE Append(grouped, [atype |-> atype, values |-> <<val>>])

\* grouped[atype].append(val) on a dict that keeps insertion order
GroupAdd(grouped, atype, val) ==
    IF \E i \in 1..Len(grouped) : grouped[i].atype = atype
    THEN [i \in 1..Len(grouped) |->
            IF grouped[i].atype = atype
            THEN [grouped[i] EXCEPT !.values = Append(@, val)]
            ELSE grouped[i]]
    ELSE Append(grouped, [atype |-> atype, values |-> <<val>>])

RECURSIVE Grouped(_, _)
Grouped(grouped, my_actions) ==
    IF my_actions = <<>> THEN grouped
    ELSE Grouped(GroupAdd(grouped, TypeOf(Head(my_actions)), ValueOf(Head(my_actions))),
                 Tail(my_actions))

ActionLine(kind, atype, n, text) ==
    [kind |-> kind, atype |-> atype, count |-> n, text |-> text]

\* a variant of the width test that leaves the type name out
Fits_NoTypeName(joined, atype) == Len(joined) + 4 <= WidthBudget

Fits(joined, atype) == Len(joined) + Len(atype) + 4 <= WidthBudget

\* a variant that leaves the hint out when the type is printed bare
GroupLines_NoHintOnBare(atype, values) ==
    LET hint == atype \in ACTION_HINTS
        hintLine == IF hint THEN <<ActionLine("hint", atype, 0, atype)>> ELSE <<>>
    IN  IF \A i \in 1..Len(values) : values[i] = VNull
        THEN <<ActionLine("bare", atype, 0, "")>>
        ELSE LET formatted == [i \in 1..Len(values) |-> JsonDumps(values[i])]
                 perLine == [i \in 1..Len(values) |->
                                ActionLine("value", atype, 0, formatted[i])]
                 countLine == <<ActionLine("count", atype, Len(values), "")>>
             IN  IF hint THEN countLine \o hintLine \o perLine
                 ELSE LET joined == Join(formatted, " | ") IN
                      IF Fits(joined, atype)
                      THEN <<ActionLine("inline", atype, 0, joined)>>
                      ELSE countLine \o perLine

\* the lines of one group
GroupLines(atype, values) ==
    LET hint == atype \in ACTION_HINTS
        hintLine == IF hint THEN <<ActionLine("hint", atype, 0, atype)>> ELSE <<>>
    IN  IF \A i \in 1..Len(values) : values[i] = VNull
        THEN <<ActionLine("bare", atype, 0, "")>> \o hintLine
        ELSE LET formatted == [i \in 1..Len(values) |-> JsonDumps(values[i])]
                 perLine == [i \in 1..Len(values) |->
                                ActionLine("value", atype, 0, formatted[i])]
                 countLine == <<ActionLine("count", atype, Len(values), "")>>
             IN  IF hint THEN countLine \o hintLine \o perLine
                 ELSE LET joined == Join(formatted, " | ") IN
                      IF Fits(joined, atype)
                      THEN <<ActionLine("inline", atype, 0, joined)>>
                      ELSE countLine \o perLine

\* a variant that has no waiting report
PrintActions_NoWaiting(actions, my_color) ==
    LET my_actions == MyActions(actions, my_color)
        other_colors == OtherColors(actions, my_color)
        grouped == Grouped(<<>>, my_actions)
    IN  [grouped |-> grouped,
         lines |-> <<ActionLine("section", Null, 0, "Available Actions")>>
            \o Flatten([i \in 1..Len(grouped) |->
                          GroupLines(grouped[i].atype, grouped[i].values)])
            \o (IF other_colors # {}
                THEN <<ActionLine("note", Null, 0, SortedColors(other_colors))>>
                ELSE <<>>)]

\* _print_actions: the groups it builds and the lines it prints
PrintActions(actions, my_color) ==
    LET my_actions == MyActions(actions, my_color)
        other_colors == OtherColors(actions, my_color)
        grouped == Grouped(<<>>, my_actions)
    IN  IF my_actions = <<>> /\ other_colors # {}
        THEN [grouped |-> <<>>,
              lines |-> <<ActionLine("section", Null, 0, "Available Actions"),
                          ActionLine("waiting", Null, 0, SortedColors(other_colors))>>]
        ELSE [grouped |-> grouped,
              lines |-> <<ActionLine("section", Null, 0, "Available Actions")>>
                 \o Flatten([i \in 1..Len(grouped) |->
                               GroupLines(grouped[i].atype, grouped[i].values)])
                 \o (IF other_colors # {}
                     THEN <<ActionLine("note", Null, 0, SortedColors(other_colors))>>
                     ELSE <<>>)]

NoActionsOutput == [grouped |-> <<>>, lines |-> <<>>]

ActionsInit ==
    /\ WaitOff
    /\ call = "print_actions"
    /\ input \in [actions : SeqsUpTo(Actions, MaxActions), my_color : {MyColor}]
    /\ output = NoActionsOutput

CallPrintActions ==
    /\ call = "print_actions"
    /\ output' = PrintActions(input.actions, input.my_color)
    /\ call' = "print_actions_done"
    /\ UNCHANGED input
    /\ UNCHANGED waitVars

ActionsNext == CallPrintActions

ActionsSpec == ActionsInit /\ [][ActionsNext]_vars

\* the actions of every hinted type and of one type without a hint, with a
\* present, a null and no payload, and one action of another colour
HintedActions ==
    [shape : {"list3"}, color : {MyColor}, type : ACTION_HINTS \cup {"END_TIDE"},
     value : {VNull, VInt(12)}]
    \cup [shape : {"list2"}, color : {MyColor}, type : ACTION_HINTS \cup {"END_TIDE"},
          value : {VNull}]
    \cup [shape : {"list3"}, color : {"BLUE"}, type : {"RELEASE_CATCH"},
          value : {VInt(12)}]

HintsInit ==
    /\ WaitOff
    /\ call = "print_actions"
    /\ input \in [actions : SeqsUpTo(HintedActions, MaxActions), my_color : {MyColor}]
    /\ output = NoActionsOutput

HintsSpec == HintsInit /\ [][ActionsNext]_vars

\* ------------------------------------------------------- state extraction
MaxPlayers == 2      \* longest colors list of a snapshot handed to a view

DEV_CARDS ==
    <<"LOBSTER_GUARD", "BOUNTIFUL_HARVEST", "TIDAL_MONOPOLY", "CURRENT_BUILDING",
      "TREASURE_CHEST">>

ViewColors == {"RED", "BLUE", "ORANGE"}

\* the colors lists: every colour at most once
ViewColorSeqs ==
    {cs \in SeqsUpTo(ViewColors, MaxPlayers) :
        \A i, j \in 1..Len(cs) : cs[i] = cs[j] => i = j}

\* the fields of the drawn player_state keys
ViewFields ==
    {InHand(RESOURCES[k]) : k \in 1..Len(RESOURCES)}
    \cup {InHand("LOBSTER_GUARD"), "TREASURE_CHESTS", "TIDE_POOLS_AVAILABLE",
          "HAS_ROAD", "HAS_ARMY", "LONGEST_ROAD_LENGTH", "PLAYED_LOBSTER_GUARD"}

ViewKeys == {PKey(i, f) : i \in 0..(MaxPlayers - 1), f \in ViewFields}

\* a variant that counts positions from one
FindIdx_FromOne(colors, color) ==
    IF \E i \in 1..Len(colors) : colors[i] = color
    THEN CHOOSE i \in 1..Len(colors) :
            colors[i] = color /\ \A j \in 1..(i - 1) : colors[j] # color
    ELSE -1

\* _find_idx: colors.index(color), -1 when the colour is not in the list
FindIdx(colors, color) ==
    IF \E i \in 1..Len(colors) : colors[i] = color
    THEN (CHOOSE i \in 1..Len(colors) :
            colors[i] = color /\ \A j \in 1..(i - 1) : colors[j] # color) - 1
    ELSE -1

\* bool(ps.get(key, False))
Flag(ps, key) == Get(ps, key, 0) # 0

\* a variant of the running total that leaves the last resource out
TotalOf_AllButLast(resources) == SumSeq(SubSeq(resources, 1, Len(resources) - 1))

\* total += c over RESOURCES
TotalOf(resources) == SumSeq(resources)

\* _my_status: <<>> for None, otherwise the status dict
MyStatus(state, color) ==
    LET ps == state.player_state
        idx == FindIdx(state.colors, color)
        resources == [k \in 1..Len(RESOURCES) |->
                        Get(ps, PKey(idx, InHand(RESOURCES[k])), 0)]
        held == {k \in 1..Len(DEV_CARDS) :
                    Get(ps, PKey(idx, InHand(DEV_CARDS[k])), 0) > 0}
    IN  IF idx < 0 THEN <<>>
        ELSE <<[color |-> color,
                vp |-> Get(ps, PKey(idx, "TREASURE_CHESTS"), 0),
                resources |-> resources,
                total_resources |-> TotalOf(resources),
                dev_cards |-> [d \in {DEV_CARDS[k] : k \in held} |->
                                  Get(ps, PKey(idx, InHand(d)), 0)],
                buildings |->
                    [TIDE_POOLS |-> Get(ps, PKey(idx, "TIDE_POOLS_AVAILABLE"), 0),
                     REEFS |-> Get(ps, PKey(idx, "REEFS_AVAILABLE"), 0),
                     CURRENTS |-> Get(ps, PKey(idx, "CURRENTS_AVAILABLE"), 0)],
                longest_road |-> Flag(ps, PKey(idx, "HAS_ROAD")),
                largest_army |-> Flag(ps, PKey(idx, "HAS_ARMY")),
                road_length |-> Get(ps, PKey(idx, "LONGEST_ROAD_LENGTH"), 0),
                knights |-> Get(ps, PKey(idx, "PLAYED_LOBSTER_GUARD"), 0),
                has_rolled |-> Flag(ps, PKey(idx, "HAS_ROLLED")),
                played_dev |->
                    Flag(ps, PKey(idx, "HAS_PLAYED_DEVELOPMENT_CARD_IN_TURN"))]>>

\* the summary of the player at position i (0-based)
OpponentAt(state, i) ==
    LET ps == state.player_state IN
    [color |-> state.colors[i + 1],
     vp |-> Get(ps, PKey(i, "TREASURE_CHESTS"), 0),
     cards |-> SumSeq([k \in 1..Len(RESOURCES) |->
                          Get(ps, PKey(i, InHand(RESOURCES[k])), 0)]),
     dev_cards |-> SumSeq([k \in 1..Len(DEV_CARDS) |->
                              Get(ps, PKey(i, InHand(DEV_CARDS[k])), 0)]),
     knights |-> Get(ps, PKey(i, "PLAYED_LOBSTER_GUARD"), 0),
     road_length |-> Get(ps, PKey(i, "LONGEST_ROAD_LENGTH"), 0),
     tags |-> (IF Flag(ps, PKey(i, "HAS_ROAD")) THEN <<"longest_road">> ELSE <<>>)
              \o (IF Flag(ps, PKey(i, "HAS_ARMY")) THEN <<"largest_army">> ELSE <<>>)]

\* a variant that does not skip the given colour
Opponents_SelfIncluded(state, color) ==
    Flatten([i \in 1..Len(state.colors) |-> <<OpponentAt(state, i - 1)>>])

\* _opponents: one summary per other colour, in colors order
Opponents(state, color) ==
    Flatten([i \in 1..Len(state.colors) |->
        IF state.colors[i] = color THEN <<>> ELSE <<OpponentAt(state, i - 1)>>])

ViewInit ==
    /\ WaitOff
    /\ call \in {"my_status", "opponents", "all_player_resources"}
    /\ \E cs \in ViewColorSeqs, ps \in SparseStates(ViewKeys) :
         input \in [state : {[colors |-> cs, player_state |-> ps]},
                    color : IF call = "all_player_resources"
                            THEN {MyColor} ELSE {"RED", "BLUE"}]
    /\ output = <<>>

CallMyStatus ==
    /\ call = "my_status"
    /\ output' = MyStatus(input.state, input.color)
    /\ call' = "my_status_done"
    /\ UNCHANGED input
    /\ UNCHANGED waitVars

CallOpponents ==
    /\ call = "opponents"
    /\ output' = Opponents(input.state, input.color)
    /\ call' = "opponents_done"
    /\ UNCHANGED input
    /\ UNCHANGED waitVars

CallAllPlayerResources ==
    /\ call = "all_player_resources"
    /\ output' = AllPlayerResources(input.state)
    /\ call' = "all_player_resources_done"
    /\ UNCHANGED input
    /\ UNCHANGED waitVars

ViewNext == CallMyStatus \/ CallOpponents \/ CallAllPlayerResources

ViewSpec == ViewInit /\ [][ViewNext]_vars

\* ===================================================================
\* The act command (cmd_act): call is its position, input its arguments and
\* output its requests, its pre-action snapshot, its printed lines and its
\* exit status
\* ===================================================================
ActTypes == {RollType, "END_TIDE"}

InterruptPrompts == {"RELEASE_CATCH", "MOVE_THE_KRAKEN", "DISCARD"}
ActPrompts == {"PLAY_TURN", "DISCARD", "MOVE_THE_KRAKEN"}

SelfAction == [shape |-> "list2", color |-> MyColor, type |-> "END_TIDE", value |-> VNull]
NullColorAction ==
    [shape |-> "list3", color |-> Null, type |-> "RELEASE_CATCH", value |-> VInt(12)]
OtherAction(c) ==
    [shape |-> "list2", color |-> c, type |-> "RELEASE_CATCH", value |-> VNull]

\* the current_playable_actions lists of the drawn snapshots
ActActionLists ==
    {<<>>, <<SelfAction>>, <<NullColorAction>>, <<OtherAction("BLUE")>>,
     <<OtherAction("BLUE"), SelfAction>>,
     <<OtherAction("ORANGE"), OtherAction("BLUE")>>}

OneCard == [k \in {PKey(0, InHand("DRIFTWOOD"))} |-> 1]

\* the records of the drawn snapshots: none, a roll of 3 and 4, a roll
\* record without a value
ActRecordSeqs ==
    {<<>>,
     <<[shape |-> "list3", color |-> MyColor, type |-> RollType,
        value |-> VList(<<3, 4>>)]>>,
     <<[shape |-> "list2", color |-> MyColor, type |-> RollType, value |-> VNull]>>}

ActSnapshots ==
    [colors : {<<>>, <<MyColor>>}, player_state : {NoKeys, OneCard},
     action_records : ActRecordSeqs, current_color : Colors,
     current_prompt : ActPrompts, actions : ActActionLists]

NoActSnapshot ==
    [colors |-> <<>>, player_state |-> NoKeys, action_records |-> <<>>,
     current_color |-> MyColor, current_prompt |-> "PLAY_TURN", actions |-> <<>>]

\* a GET /game/{id} of cmd_act: failed, or the snapshot it returned
ActFetches ==
    [ok : {TRUE}, state : ActSnapshots] \cup [ok : {FALSE}, state : {NoActSnapshot}]

\* the answer to POST /action/{id}: accepted, refused as not a valid action,
\* or refused for another reason
SubmitResults == {"ok", "invalid", "error"}

NoAct ==
    [requests |-> <<>>, pre |-> NoResources, lines |-> <<>>, exit |-> -1,
     branch |-> "none", state |-> NoActSnapshot, refetched |-> FALSE]

TextLine(kind) == ActionLine(kind, Null, 0, "")

\* a variant that takes the snapshot for every action type
NeedsSnapshot_Always(action) == TRUE

\* the pre-action snapshot is taken for the dice roll only
NeedsSnapshot(action) == action = RollType

\* a variant that counts every listed action as the agent's own
ActMyActions_All(actions, color) == actions

\* my_actions of cmd_act
ActMyActions(actions, color) ==
    SelectSeq(actions, LAMBDA a : ~(IsList(a) /\ a.color # Null /\ a.color # color))

\* other_colors of the interrupt branch of cmd_act
ActOtherColors(actions, color) ==
    {actions[i].color :
        i \in {j \in 1..Len(actions) :
                 IsList(actions[j]) /\ actions[j].color # Null
                 /\ actions[j].color # color}}

\* a variant that looks at the listed actions before the current colour
ReportBranch_ActionsFirst(state, color) ==
    IF ActMyActions(state.actions, color) # <<>> THEN "paused"
    ELSE IF state.current_color = color THEN "mine"
    ELSE IF state.current_prompt \in InterruptPrompts THEN "interrupt"
    ELSE "passed"

\* the branch of the next-step report
ReportBranch(state, color) ==
    IF state.current_color = color THEN "mine"
    ELSE IF ActMyActions(state.actions, color) # <<>> THEN "paused"
    ELSE IF state.current_prompt \in InterruptPrompts THEN "interrupt"
    ELSE "passed"

\* the lines of the next-step report
ReportLines(state, color) ==
    LET branch == ReportBranch(state, color)
        my_actions == ActMyActions(state.actions, color)
        other_colors == ActOtherColors(state.actions, color)
    IN  IF branch = "mine"
        THEN <<TextLine("prompt")>>
             \o (IF MyStatus(state, color) # <<>>
                 THEN <<ActionLine("section", Null, 0, "Resources"),
                        TextLine("resources")>>
                 ELSE <<>>)
             \o (IF my_actions # <<>>
                 THEN PrintActions(state.actions, color).lines
                 ELSE <<TextLine("no_actions")>>)
        ELSE IF branch = "paused"
        THEN <<TextLine("prompt")>>
             \o PrintActions(state.actions, color).lines
             \o <<ActionLine("paused_note", Null, 0, state.current_color)>>
        ELSE IF branch = "interrupt"
        THEN <<ActionLine("section", Null, 0, "Waiting on Other Players")>>
             \o (IF other_colors # {}
                 THEN <<ActionLine("must_first", state.current_prompt, 0,
                                   SortedColors(other_colors))>>
                 ELSE <<ActionLine("waiting_on", state.current_prompt, 0,
                                   state.current_color)>>)
             \o <<TextLine("turn_not_over")>>
        ELSE <<ActionLine("turn_passed", Null, 0, state.current_color)>>

\* a variant of the except branch that sends the action again after a
\* successful remediation fetch
SubmitFailure_Resubmit(result, rf, color) ==
    IF result = "invalid"
    THEN [requests |-> <<"GET">> \o (IF rf.ok THEN <<"POST">> ELSE <<>>),
          lines |-> <<TextLine("error_failed"), TextLine("not_available")>>
                    \o (IF rf.ok
                        THEN <<TextLine("current_turn")>>
                             \o (IF rf.state.actions # <<>>
                                 THEN PrintActions(rf.state.actions, color).lines
                                 ELSE <<>>)
                             \o <<TextLine("tip")>>
                        ELSE <<TextLine("run_wait")>>),
          exit |-> 1]
    ELSE [requests |-> <<>>,
          lines |-> <<TextLine("error_failed"), TextLine("detail")>>,
          exit |-> 1]

\* the except APIError branch of the submission
SubmitFailure(result, rf, color) ==
    IF result = "invalid"
    THEN [requests |-> <<"GET">>,
          lines |-> <<TextLine("error_failed"), TextLine("not_available")>>
                    \o (IF rf.ok
                        THEN <<TextLine("current_turn")>>
                             \o (IF rf.state.actions # <<>>
                                 THEN PrintActions(rf.state.actions, color).lines
                                 ELSE <<>>)
                             \o <<TextLine("tip")>>
                        ELSE <<TextLine("run_wait")>>),
          exit |-> 1]
    ELSE [requests |-> <<>>,
          lines |-> <<TextLine("error_failed"), TextLine("detail")>>,
          exit |-> 1]

ActInit ==
    /\ WaitOff
    /\ call = "act_start"
    /\ input \in [action : ActTypes, color : {MyColor}]
    /\ output = NoAct

\* the pre-action snapshot: best effort, for the dice roll only
ActSnapshot ==
    /\ call = "act_start"
    /\ IF NeedsSnapshot(input.action)
       THEN \E sf \in ActFetches :
              /\ sf.ok => (sf.state.action_records = <<>> /\ sf.state.actions = <<>>
                           /\ sf.state.current_prompt = "PLAY_TURN"
                           /\ sf.state.current_color = MyColor)
              /\ output' = [output EXCEPT !.requests = Append(@, "GET"),
                                          !.pre = PreResources(sf)]
       ELSE UNCHANGED output
    /\ call' = "act_submit"
    /\ UNCHANGED input
    /\ UNCHANGED waitVars

\* the submission; a refusal is reported, with the remediation fetch when
\* the action is not a valid one, and ends the command
ActSubmit ==
    /\ call = "act_submit"
    /\ \E result \in SubmitResults :
         IF result = "ok"
         THEN /\ output' = [output EXCEPT !.requests = Append(@, "POST"),
                                          !.lines = @ \o <<TextLine("action_ok")>>]
              /\ call' = "act_report"
         ELSE \E rf \in ActFetches :
              /\ (result # "invalid" => ~rf.ok)
              /\ rf.ok => (rf.state.action_records = <<>>
                           /\ rf.state.player_state = NoKeys
                           /\ rf.state.colors = <<MyColor>>)
              /\ LET f == SubmitFailure(result, rf, input.color) IN
                 output' = [output EXCEPT !.requests = Append(@, "POST") \o f.requests,
                                          !.lines = @ \o f.lines,
                                          !.exit = f.exit]
              /\ call' = "act_done"
    /\ UNCHANGED input
    /\ UNCHANGED waitVars

\* the state re-fetch and what follows it: the roll result after a dice
\* roll, then the next-step report; a failed re-fetch reaches main()
ActReport ==
    /\ call = "act_report"
    /\ \E sf \in ActFetches :
         /\ (sf.ok /\ input.action # RollType) =>
               (sf.state.action_records = <<>> /\ sf.state.player_state = NoKeys)
         /\ IF ~sf.ok
            THEN output' = [output EXCEPT !.requests = Append(@, "GET"),
                                          !.lines = @ \o <<TextLine("error")>>,
                                          !.exit = 1]
            ELSE output' =
                   [output EXCEPT
                      !.requests = Append(@, "GET"),
                      !.lines = @ \o (IF input.action = RollType
                                      THEN PrintRollResult(sf.state, output.pre)
                                      ELSE <<>>)
                                  \o ReportLines(sf.state, input.color),
                      !.branch = ReportBranch(sf.state, input.color),
                      !.state = sf.state,
                      !.refetched = TRUE,
                      !.exit = 0]
    /\ call' = "act_done"
    /\ UNCHANGED input
    /\ UNCHANGED waitVars

ActNext == ActSnapshot \/ ActSubmit \/ ActReport

ActSpec == ActInit /\ [][ActNext]_vars

\* ===================================================================
\* Properties of the wait poll loop
\* ===================================================================
Printed(tag) == \E i \in 1..Len(out) : out[i] = tag
LastShown == IF notices = <<>> THEN "none" ELSE notices[Len(notices)].label
PhaseOfStatus(status) == IF status.started THEN "turn" ELSE "lobby"
LastWasNotFound == lastResult.kind = "error" /\ lastResult.code = 404
LastWasTransient == lastResult.kind = "error" /\ lastResult.code # 404
LastWasStatus == lastResult.kind = "ok"
LastHasWinner == LastWasStatus /\ lastResult.status.winning_color # Null
LastIsPlain == LastWasStatus /\ lastResult.status.winning_color = Null

\* C1: a status fetch that fails with HTTP 404 ends the wait at once in
\* NOT_FOUND with exit status 1, whatever the clock and the phase shown, and
\* no status fetch and no sleep follows it.
C1_NotFoundIsFatal ==
    /\ [](LastWasNotFound => (terminal = "NOT_FOUND" /\ exitCode = 1 /\ pc = "done"))
    /\ [][LastWasNotFound => (nFetch' = nFetch /\ nSleep' = nSleep)]_vars

C1_Witness ==
    /\ LastWasNotFound
    /\ now < deadline
    /\ phase_shown = "turn"
    /\ nSleep >= 1

\* C2: a successful status fetch that carries a winning color leads to
\* GAME_OVER in that same poll, whatever started, your_turn, current_color,
\* the phase shown and the clock are; that poll prints no phase notice and
\* does not reach MY_TURN.
C2_WinnerMeansGameOver ==
    LastHasWinner =>
        /\ terminal = "GAME_OVER"
        /\ pc \in {"final_scores", "done"}
        /\ emitted = <<>>

C2_Witness ==
    /\ LastHasWinner
    /\ lastResult.status.your_turn
    /\ ~lastResult.status.started
    /\ now >= deadline
    /\ phase_shown = "turn"

C4_NoticesAlternate ==
    \A i \in 1..(Len(notices) - 1) : notices[i].label # notices[i + 1].label

C4_Witness ==
    /\ Len(notices) >= 3
    /\ notices[1].label = "turn"
    /\ notices[3].label = "turn"
    /\ notices[1].cur # notices[3].cur

\* C5: a successful poll without a winning color prints exactly one notice,
\* for the phase of its status, when that phase differs from the phase of the
\* last notice printed (none before the first), and prints nothing otherwise.
C5_OneNoticePerEntry ==
    [][ (pc = "poll" /\ lastResult'.kind = "ok"
                     /\ lastResult'.status.winning_color = Null) =>
          LET ph == PhaseOfStatus(lastResult'.status) IN
          IF ph # LastShown
          THEN /\ Len(notices') = Len(notices) + 1
               /\ SubSeq(notices', 1, Len(notices)) = notices
               /\ notices'[Len(notices')].label = ph
               /\ emitted' = <<notices'[Len(notices')]>>
          ELSE /\ notices' = notices
               /\ emitted' = <<>>
      ]_vars

C5_Witness ==
    /\ Len(notices) >= 3
    /\ notices[1].label = "lobby"
    /\ notices[2].label = "turn"
    /\ notices[3].label = "lobby"
\* C6: a "waiting for your turn" notice is printed only by a poll whose
\* status is started and not flagged as the agent's turn, and a poll whose
\* status is flagged as the agent's turn reaches MY_TURN without printing any
\* notice.
C6_NoNoticeOnMyTurn ==
    /\ (\E i \in 1..Len(emitted) : emitted[i].label = "turn") =>
           (lastResult.status.started /\ ~lastResult.status.your_turn)
    /\ (LastIsPlain /\ lastResult.status.your_turn) =>
           (terminal = "MY_TURN" /\ emitted = <<>>)

\* C7: MY_TURN is reached only on a status with no winning color, started
\* and your_turn; a status that is not started keeps the waiter in LOBBY even
\* if it carries your_turn.
C7_PriorityChain ==
    /\ terminal = "MY_TURN" =>
           /\ LastIsPlain
           /\ lastResult.status.started
           /\ lastResult.status.your_turn
    /\ (LastIsPlain /\ ~lastResult.status.started) => terminal # "MY_TURN"

\* C8: when the wait ends it is in one of the four terminal states with an
\* exit status, and once a terminal state is entered it never changes and no
\* status fetch, sleep or phase notice follows.
C8_TerminalsAbsorb ==
    [][ /\ pc' = "done" => (terminal' \in Terminals /\ exitCode' \in {0, 1})
        /\ terminal \in Terminals =>
             /\ terminal' = terminal
             /\ nFetch' = nFetch
             /\ nSleep' = nSleep
             /\ notices' = notices
             /\ lastResult' = lastResult
      ]_vars

C8_Witness ==
    /\ pc = "done"
    /\ terminal = "MY_TURN"
    /\ brief.ok
    /\ nSleep >= 1
    /\ Len(notices) >= 1

\* C9: with a clock that advances on every sleep and fetches that always
\* return, every wait eventually ends in a terminal state.
C9_WaitTerminates == <>(pc = "done" /\ terminal \in Terminals)

C9_Witness ==
    /\ pc = "done"
    /\ terminal = "TIMEOUT"
    /\ nFetch >= 3
    /\ LastIsPlain

\* C10: a failed baseline fetch or a failed new-chat fetch never aborts the
\* wait: after the baseline the poll loop is entered with nothing decided,
\* the terminal state is the one the latest status poll determines, and a
\* briefing whose snapshot was fetched ends with exit status 0 and shows the
\* status, the opponents and the available actions the snapshot has.
C10_BestEffortFetches ==
    /\ (baseline # "pending" /\ nFetch = 0) =>
           (pc = "poll" /\ terminal = "NONE" /\ exitCode = -1 /\ notices = <<>>)
    /\ terminal = "NOT_FOUND" <=> LastWasNotFound
    /\ terminal = "GAME_OVER" <=> LastHasWinner
    /\ terminal = "MY_TURN" <=> (LastIsPlain /\ lastResult.status.your_turn)
    /\ terminal = "TIMEOUT" =>
           (LastWasTransient \/ (LastIsPlain /\ ~lastResult.status.your_turn))
    /\ (pc = "done" /\ terminal = "MY_TURN" /\ brief.ok) =>
           /\ exitCode = 0
           /\ Printed("YOUR TURN")
           /\ Printed("Your Status") <=> IsParticipant(brief.state, MyColor)
           /\ Printed("Opponents") <=> HasOpponents(brief.state, MyColor)
           /\ Printed("Available Actions") <=> brief.state.has_actions

C10_Witness ==
    /\ pc = "done"
    /\ terminal = "MY_TURN"
    /\ baseline = "state_failed"
    /\ chat_result = "failed"
    /\ brief.ok
    /\ brief.state.has_actions
    /\ Printed("Your Status")
    /\ Printed("Opponents")
    /\ Printed("Available Actions")
\* ===================================================================
\* Properties of the game-over report and of the briefing deltas
\* ===================================================================
BriefingDone == pc = "done" /\ terminal = "MY_TURN" /\ brief.ok

\* C11: when the wait-start baseline fetch failed, the briefing shows no
\* history delta and no chat delta.
C11_FailedBaselineShowsNoDelta ==
    /\ (BriefingDone /\ baseline = "state_failed") =>
           (history_shown = <<>> /\ ~Printed("Recent Actions") /\ ~Printed("New Chat"))
    /\ (BriefingDone /\ baseline = "chat_failed") => ~Printed("New Chat")

\* C12: at GAME_OVER the winner of the status is reported and the wait exits
\* with status 0 whether or not the final-state fetch succeeds; when it
\* succeeds there is one score line per color, in colors order, and a line is
\* marked as winner exactly when its color is the winning color.
C12_GameOverReport ==
    (pc = "done" /\ terminal = "GAME_OVER") =>
        /\ exitCode = 0
        /\ Printed("GAME OVER") /\ Printed("Winner")
        /\ winner = lastResult.status.winning_color
        /\ ~brief.ok => (score_lines = <<>> /\ ~Printed("Final Scores"))
        /\ brief.ok =>
             /\ Printed("Final Scores")
             /\ Len(score_lines) = Len(brief.state.colors)
             /\ \A i \in 1..Len(score_lines) :
                  /\ score_lines[i].color = brief.state.colors[i]
                  /\ score_lines[i].marked <=> (brief.state.colors[i] = winner)

C12_Witness ==
    /\ pc = "done" /\ terminal = "GAME_OVER" /\ brief.ok
    /\ Len(score_lines) = 2
    /\ ~score_lines[1].marked
    /\ score_lines[2].marked
    /\ score_lines[1].vp > score_lines[2].vp

\* C13: history_len and chat_since are set by the baseline, before the first
\* status poll, and no later step changes them; the briefing shows exactly the
\* records of its snapshot at the positions from history_len on, in order,
\* and nothing when the snapshot has no more records than history_len.
C13_DeltaAgainstWaitStart ==
    /\ [](pc = "baseline" => (history_len = 0 /\ chat_since = 0 /\ nFetch = 0))
    /\ [][pc # "baseline" => (history_len' = history_len /\ chat_since' = chat_since)]_vars
    /\ [](BriefingDone =>
            /\ Printed("Recent Actions") <=> (brief.state.nrecords > history_len)
            /\ IF brief.state.nrecords > history_len
               THEN /\ Len(history_shown) = brief.state.nrecords - history_len
                    /\ \A k \in 1..Len(history_shown) :
                         history_shown[k] = history_len + k - 1
               ELSE history_shown = <<>>)

C13_Witness ==
    /\ BriefingDone
    /\ history_len = 1
    /\ brief.state.nrecords = 1
    /\ nSleep >= 1
    /\ baseline = "ok"
\* ===================================================================
\* Properties of the report functions
\* ===================================================================
\* C14: for records and a seen length n with 0 <= n <= len(records) the
\* history section is a title line followed by one line per record of
\* records[n:], in order, and for n = len(records) nothing is printed.
C14_HistoryIsSuffix ==
    call = "print_history_done" =>
        LET recs == input.records
            n == input.since
        IN  IF n = Len(recs)
            THEN output = <<>>
            ELSE /\ Len(output) = 1 + Len(recs) - n
                 /\ output[1] = SectionLine("Recent Actions", Len(recs) - n)
                 /\ \A k \in 1..(Len(recs) - n) :
                      /\ output[k + 1] = HistoryLine(recs[n + k])
                      /\ output[k + 1].kind # "section"

C14_Witness ==
    /\ call = "print_history_done"
    /\ Len(input.records) = 2
    /\ input.since = 1
    /\ Len(output) = 2
    /\ output[2].kind = "record_value"
\* the cards of position i (1-based) of a snapshot, read key by key
HandAt(state, i, k) == Get(state.player_state, PKey(i - 1, InHand(RESOURCES[k])), 0)
HandSum(state, i) == SumSeq([k \in 1..Len(RESOURCES) |-> HandAt(state, i, k)])
RollReturned == call = "print_roll_result_done"

\* the entries reported for a color: those of its line, none without a line
EntriesFor(c) ==
    Flatten([j \in 1..Len(output) |->
        IF output[j].kind = "gains" /\ output[j].color = c
        THEN output[j].gains ELSE <<>>])
Signed(e) == IF e.sign = "+" THEN e.n ELSE 0 - e.n

\* C15: in the resource report of a roll, for every player the reported
\* per-resource diffs add up to sum(post) - sum(pre) of that player, and the
\* entries are exactly the nonzero diffs, "+N KIND" for a positive and
\* "-N KIND" for a negative one.
C15_DiffsAddUp ==
    (RollReturned /\ input.pre_fetch.ok /\ input.state.colors # <<>>) =>
        \A i \in 1..Len(input.state.colors) :
            LET es == EntriesFor(input.state.colors[i])
                diff(k) == HandAt(input.state, i, k) - HandAt(input.pre_fetch.state, i, k)
            IN  /\ SumSeq([j \in 1..Len(es) |-> Signed(es[j])])
                     = HandSum(input.state, i) - HandSum(input.pre_fetch.state, i)
                /\ \A j \in 1..Len(es) : es[j].n > 0
                /\ \A k \in 1..Len(RESOURCES) :
                     /\ diff(k) > 0 <=> \E j \in 1..Len(es) :
                          es[j] = [sign |-> "+", n |-> diff(k), res |-> RESOURCES[k]]
                     /\ diff(k) < 0 <=> \E j \in 1..Len(es) :
                          es[j] = [sign |-> "-", n |-> 0 - diff(k), res |-> RESOURCES[k]]
                     /\ diff(k) = 0 => \A j \in 1..Len(es) : es[j].res # RESOURCES[k]

C15_Witness ==
    /\ RollReturned
    /\ \E j \in 1..Len(output) :
         /\ output[j].kind = "gains"
         /\ output[j].color = "RED"
         /\ Len(output[j].gains) = 2
         /\ output[j].gains[1].sign = "-"
         /\ output[j].gains[2].sign = "+"

\* C16: after a roll whose pre-action snapshot was obtained, when no player
\* has a nonzero resource diff the report has the "No resources produced"
\* line, also for an empty player list.
C16_NoResourcesLine ==
    (/\ RollReturned
     /\ input.pre_fetch.ok
     /\ \A i \in 1..Len(input.state.colors), k \in 1..Len(RESOURCES) :
          HandAt(input.state, i, k) = HandAt(input.pre_fetch.state, i, k))
    => \E j \in 1..Len(output) : output[j].kind = "no_resources"

\* the most recent dice-roll record of the drawn records
IsRoll(r) == r.shape # "other" /\ r.type = RollType
IsLatestRoll(i) ==
    /\ i \in 1..Len(input.state.action_records)
    /\ IsRoll(input.state.action_records[i])
    /\ \A j \in (i + 1)..Len(input.state.action_records) :
         ~IsRoll(input.state.action_records[j])
IsPair(v) == v.tag = "list" /\ Len(v.items) = 2
RollLineFor(v) ==
    IF IsPair(v)
    THEN <<[kind |-> "rolled_sum", a |-> v.items[1], b |-> v.items[2],
            total |-> v.items[1] + v.items[2]]>>
    ELSE <<[kind |-> "rolled", value |-> v]>>

\* C17: the roll line is taken from the most recent dice-roll record, "a + b
\* = a+b" for a two-element value and the raw value otherwise, and it is
\* omitted only when there is no dice-roll record.
C17_RollLine ==
    RollReturned =>
        /\ output = <<>> <=> ~\E i \in 1..Len(input.state.action_records) : IsLatestRoll(i)
        /\ \A i \in 1..Len(input.state.action_records) :
             IsLatestRoll(i) => output = RollLineFor(input.state.action_records[i].value)

\* C17 as amended: the roll line is taken from the most recent dice-roll
\* record when that record has a value that is not null, and it is omitted
\* when there is no dice-roll record or the most recent one has no value or a
\* null value.
C17_RollLineOfValue ==
    RollReturned =>
        LET recs == input.state.action_records
            valued(i) == recs[i].shape = "list3" /\ recs[i].value # VNull
        IN  /\ output = <<>> <=> ~\E i \in 1..Len(recs) : IsLatestRoll(i) /\ valued(i)
            /\ \A i \in 1..Len(recs) :
                 (IsLatestRoll(i) /\ valued(i)) => output = RollLineFor(recs[i].value)

C17_Witness ==
    /\ RollReturned
    /\ Len(input.state.action_records) = 2
    /\ IsRoll(input.state.action_records[1])
    /\ input.state.action_records[1].value = VInt(7)
    /\ IsLatestRoll(2)
    /\ output = <<[kind |-> "rolled_sum", a |-> 3, b |-> 4, total |-> 7]>>

\* ===================================================================
\* Properties of the action report
\* ===================================================================
ActionsDone == call = "print_actions_done"

\* the positions of the actions that carry a colour other than the agent's
OthersAt ==
    {i \in 1..Len(input.actions) :
        /\ input.actions[i].shape # "other"
        /\ input.actions[i].color # Null
        /\ input.actions[i].color # input.my_color}

OtherColorSet == {input.actions[i].color : i \in OthersAt}

SelfActions ==
    SelectSeq(input.actions,
              LAMBDA a : a.shape = "other" \/ a.color = Null \/ a.color = input.my_color)

\* the distinct other colours, each once, in alphabetical order
ColorList ==
    IF OtherColorSet = {"BLUE"} THEN "BLUE"
    ELSE IF OtherColorSet = {"ORANGE"} THEN "ORANGE"
    ELSE IF OtherColorSet = {"BLUE", "ORANGE"} THEN "BLUE, ORANGE"
    ELSE ""

GroupSizes == [i \in 1..Len(output.grouped) |-> Len(output.grouped[i].values)]

\* C18 as stated: an action belongs to another player exactly when its first
\* slot holds a non-null colour other than the agent's, and when there is no
\* self-action but some other-colour action the waiting line, naming the
\* distinct other colours in sorted order, is the only output.
C18_OnlyWaitingLine ==
    ActionsDone /\ SelfActions = <<>> /\ OtherColorSet # {} =>
        output.lines = <<ActionLine("waiting", Null, 0, ColorList)>>

\* C18, amended: the actions are partitioned by the colour of their first slot
\* (non-null and other than the agent's: another player's; anything else: a
\* self-action), and when there is no self-action but some other-colour
\* action the output is the section title followed by the waiting line only,
\* which names the distinct other colours in sorted order; no group is built
\* or rendered.
C18_WaitingAfterTitle ==
    ActionsDone =>
        /\ SelfActions = <<>> /\ OtherColorSet # {} =>
              /\ output.lines = <<ActionLine("section", Null, 0, "Available Actions"),
                                  ActionLine("waiting", Null, 0, ColorList)>>
              /\ output.grouped = <<>>
        /\ \A i \in 1..Len(output.lines) :
              /\ output.lines[i].kind = "waiting" => SelfActions = <<>>
              /\ output.lines[i].kind \in {"waiting", "note"} =>
                    OtherColorSet # {} /\ output.lines[i].text = ColorList
        /\ SumSeq(GroupSizes) = Len(SelfActions)

C18_Witness ==
    /\ ActionsDone
    /\ Len(input.actions) = 3
    /\ input.actions[1].color = "ORANGE"
    /\ input.actions[2].color = "BLUE"
    /\ input.actions[3].color = "ORANGE"
    /\ Len(output.lines) = 2
    /\ output.lines[2].kind = "waiting"
    /\ output.lines[2].text = "BLUE, ORANGE"

\* the self-actions of one type, and their payloads, in list order
SelfOfType(t) == SelectSeq(SelfActions, LAMBDA a : a.type = t)
PayloadOf(a) == IF a.shape = "list3" THEN a.value ELSE VNull
PayloadsOf(t) == [k \in 1..Len(SelfOfType(t)) |-> PayloadOf(SelfOfType(t)[k])]
SelfTypes == {SelfActions[i].type : i \in 1..Len(SelfActions)}

FirstAt(t) ==
    CHOOSE i \in 1..Len(SelfActions) :
        SelfActions[i].type = t /\ \A j \in 1..(i - 1) : SelfActions[j].type # t

Keys(grouped) == [i \in 1..Len(grouped) |-> grouped[i].atype]

\* the first line of every rendered group
LeadLines == SelectSeq(output.lines, LAMBDA l : l.kind \in {"bare", "inline", "count"})

\* the rearrangements of the list that move self-actions of one type among
\* themselves and leave everything else in place
SameTypePerms ==
    {p \in [1..Len(input.actions) -> 1..Len(input.actions)] :
        /\ \A i, j \in 1..Len(input.actions) : p[i] = p[j] => i = j
        /\ \A i \in 1..Len(input.actions) :
              \/ p[i] = i
              \/ /\ i \notin OthersAt
                 /\ p[i] \notin OthersAt
                 /\ input.actions[p[i]].type = input.actions[i].type}

Rearranged(p) == [i \in 1..Len(input.actions) |-> input.actions[p[i]]]

\* C19: every self-action puts its payload into exactly one group, the group
\* of its own type: no two groups share a type, a group holds the payloads of
\* all self-actions of its type and of no other, and the group sizes add up to
\* the number of self-actions; the groups are kept and rendered in the order
\* in which their types first occur, and rearranging the actions of one type
\* among themselves changes neither the set of group types nor their order.
C19_Grouping ==
    ActionsDone /\ SelfActions # <<>> =>
        /\ \A i, j \in 1..Len(output.grouped) :
              output.grouped[i].atype = output.grouped[j].atype => i = j
        /\ \A i \in 1..Len(output.grouped) :
              output.grouped[i].values = PayloadsOf(output.grouped[i].atype)
        /\ {output.grouped[i].atype : i \in 1..Len(output.grouped)} = SelfTypes
        /\ SumSeq(GroupSizes) = Len(SelfActions)
        /\ \A i, j \in 1..Len(output.grouped) :
              i < j => FirstAt(output.grouped[i].atype) < FirstAt(output.grouped[j].atype)
        /\ [i \in 1..Len(LeadLines) |-> LeadLines[i].atype] = Keys(output.grouped)
        /\ \A p \in SameTypePerms :
              Keys(Grouped(<<>>, MyActions(Rearranged(p), input.my_color)))
                  = Keys(output.grouped)

C19_Witness ==
    /\ ActionsDone
    /\ Len(input.actions) = 3
    /\ \A i \in 1..3 : input.actions[i].color = MyColor
    /\ input.actions[1].type = "OCEAN_TRADE"
    /\ input.actions[2].type = "END_TIDE"
    /\ input.actions[3].type = "OCEAN_TRADE"
    /\ PayloadOf(input.actions[1]) = VInt(12)
    /\ PayloadOf(input.actions[3]) = VNull
    /\ output.grouped = <<[atype |-> "OCEAN_TRADE", values |-> <<VInt(12), VNull>>],
                          [atype |-> "END_TIDE",
                           values |-> <<PayloadOf(input.actions[2])>>]>>

\* the length of the compact JSON text of a payload
Digits(n) == IF n < 10 THEN 1 ELSE IF n < 100 THEN 2 ELSE 3

RenderedLen(v) ==
    IF v.tag = "null" THEN 4
    ELSE IF v.tag = "str" THEN 2
    ELSE IF v.tag = "int" THEN Digits(v.items[1])
    ELSE 2 + SumSeq([i \in 1..Len(v.items) |-> Digits(v.items[i])])
           + (Len(v.items) - 1)

\* the length of the payloads of one type joined by " | "
JoinedLen(t) ==
    SumSeq([k \in 1..Len(PayloadsOf(t)) |-> RenderedLen(PayloadsOf(t)[k])])
    + 3 * (Len(PayloadsOf(t)) - 1)

FitsBudget(t) == JoinedLen(t) + Len(t) + 4 <= WidthBudget

HasPayload(t) == \E k \in 1..Len(PayloadsOf(t)) : PayloadsOf(t)[k] # VNull

\* the lines of one group, the usage hint aside
ValueLinesOf(t) == SelectSeq(output.lines, LAMBDA l : l.atype = t /\ l.kind # "hint")

OnOneLine(t) ==
    /\ Len(ValueLinesOf(t)) = 1
    /\ ValueLinesOf(t)[1].kind = "inline"
    /\ Len(ValueLinesOf(t)[1].text) = JoinedLen(t)

OnePerLine(t) ==
    /\ Len(ValueLinesOf(t)) = Len(PayloadsOf(t)) + 1
    /\ ValueLinesOf(t)[1].kind = "count"
    /\ ValueLinesOf(t)[1].count = Len(PayloadsOf(t))
    /\ \A k \in 1..Len(PayloadsOf(t)) :
          /\ ValueLinesOf(t)[k + 1].kind = "value"
          /\ ValueLinesOf(t)[k + 1].text = JsonDumps(PayloadsOf(t)[k])
          /\ Len(ValueLinesOf(t)[k + 1].text) = RenderedLen(PayloadsOf(t)[k])

\* C20 as stated: every group with a present payload, with or without a
\* usage hint, shows its payloads on one line when the joined text and the
\* type name fit the 120-character budget, and the count followed by one
\* payload per line otherwise.
C20_WidthRule ==
    ActionsDone =>
        \A t \in SelfTypes :
            HasPayload(t) => IF FitsBudget(t) THEN OnOneLine(t) ELSE OnePerLine(t)

\* C20, amended: a group with a present payload whose type has no usage hint
\* shows its payloads on one line exactly when the joined text, the type name
\* and 4 more characters are at most 120 characters, and the count followed by
\* one payload per line otherwise; a group with a present payload whose type
\* has a usage hint always shows the count and one payload per line.
C20_WidthRuleWithoutHint ==
    ActionsDone =>
        \A t \in SelfTypes :
            HasPayload(t) =>
                IF t \notin ACTION_HINTS /\ FitsBudget(t)
                THEN OnOneLine(t)
                ELSE OnePerLine(t)

C20_Witness ==
    /\ ActionsDone
    /\ Len(input.actions) = 2
    /\ SelfTypes = {"BUILD_TIDE_POOL"}
    /\ JoinedLen("BUILD_TIDE_POOL") + Len("BUILD_TIDE_POOL") + 4 = WidthBudget + 1
    /\ OnePerLine("BUILD_TIDE_POOL")

\* the four action types of the hint table
HintedTypes ==
    {"RELEASE_CATCH", "MOVE_THE_KRAKEN", "OCEAN_TRADE", "PLAY_BOUNTIFUL_HARVEST"}

HintLinesOf(t) == SelectSeq(output.lines, LAMBDA l : l.atype = t /\ l.kind = "hint")

\* the position in the output of the first line of the group of type t
LeadAt(t) ==
    CHOOSE i \in 1..Len(output.lines) :
        output.lines[i].atype = t /\ output.lines[i].kind \in {"bare", "inline", "count"}

\* C21: every rendered group shows the usage hint, once and right after its
\* first line, exactly when its type is one of the four types of the hint
\* table, whether its payloads are absent or present; a group whose payloads
\* are all absent prints the bare type once and no value line, however many
\* actions of that type the list has.
C21_HintsAndBareTypes ==
    ActionsDone /\ SelfActions # <<>> =>
        \A t \in SelfTypes :
            /\ Len(HintLinesOf(t)) = (IF t \in HintedTypes THEN 1 ELSE 0)
            /\ t \in HintedTypes => output.lines[LeadAt(t) + 1].kind = "hint"
                                    /\ output.lines[LeadAt(t) + 1].atype = t
            /\ ~HasPayload(t) =>
                  ValueLinesOf(t) = <<ActionLine("bare", t, 0, "")>>

C21_Witness ==
    /\ ActionsDone
    /\ Len(input.actions) = 3
    /\ SelfTypes = {"MOVE_THE_KRAKEN"}
    /\ Len(SelfActions) = 3
    /\ ~HasPayload("MOVE_THE_KRAKEN")
    /\ input.actions[1].shape = "list2"
    /\ input.actions[2].shape = "list3"
    /\ output.lines = <<ActionLine("section", Null, 0, "Available Actions"),
                        ActionLine("bare", "MOVE_THE_KRAKEN", 0, ""),
                        ActionLine("hint", "MOVE_THE_KRAKEN", 0, "MOVE_THE_KRAKEN")>>

NoteLines == SelectSeq(output.lines, LAMBDA l : l.kind = "note")

\* C22: when the list has a self-action, the note naming the other players
\* that still have to act is printed, once and as the last line after every
\* group, exactly when the list has an action of another colour, and it names
\* every distinct other colour once, in sorted order.
C22_TrailingNote ==
    ActionsDone /\ SelfActions # <<>> =>
        /\ OtherColorSet # {} =>
              /\ NoteLines = <<ActionLine("note", Null, 0, ColorList)>>
              /\ output.lines[Len(output.lines)].kind = "note"
        /\ OtherColorSet = {} => NoteLines = <<>>
        /\ \A i \in 1..Len(output.lines) : output.lines[i].kind # "waiting"

C22_Witness ==
    /\ ActionsDone
    /\ Len(input.actions) = 3
    /\ input.actions[1].color = "ORANGE"
    /\ input.actions[2].color = MyColor
    /\ input.actions[3].color = "BLUE"
    /\ Len(LeadLines) = 1
    /\ output.lines[Len(output.lines)] = ActionLine("note", Null, 0, "BLUE, ORANGE")

\* ===================================================================
\* Properties of the state extraction
\* ===================================================================
\* the 0-based positions of colors that hold the given colour
PositionsOf(color) ==
    {i \in 0..(Len(input.state.colors) - 1) : input.state.colors[i + 1] = color}

\* the value under "P{i}_{field}", a missing key counting as 0
KeyValue(i, field) ==
    IF <<i, field>> \in DOMAIN input.state.player_state
    THEN input.state.player_state[<<i, field>>]
    ELSE 0

\* the snapshot without the keys of the positions other than i
OnlyKeysOf(i) ==
    [input.state EXCEPT !.player_state =
        [k \in {q \in DOMAIN input.state.player_state : q[1] = i} |->
            input.state.player_state[k]]]

\* C23: the player status is null exactly when the colour is not in colors;
\* when it is, every field of the status is read from the keys "P{i}_..." of
\* the position i of that colour and from no other key.
C23_StatusOfOwnPosition ==
    call = "my_status_done" =>
        /\ output = <<>> <=> PositionsOf(input.color) = {}
        /\ output # <<>> =>
              \A i \in PositionsOf(input.color) :
                  /\ output[1].color = input.color
                  /\ output[1].vp = KeyValue(i, "TREASURE_CHESTS")
                  /\ output[1].road_length = KeyValue(i, "LONGEST_ROAD_LENGTH")
                  /\ output[1].knights = KeyValue(i, "PLAYED_LOBSTER_GUARD")
                  /\ output[1].longest_road = (KeyValue(i, "HAS_ROAD") # 0)
                  /\ output[1].largest_army = (KeyValue(i, "HAS_ARMY") # 0)
                  /\ output[1].buildings.TIDE_POOLS = KeyValue(i, "TIDE_POOLS_AVAILABLE")
                  /\ \A k \in 1..5 :
                        output[1].resources[k] = KeyValue(i, RESOURCES[k] \o "_IN_HAND")
                  /\ ("LOBSTER_GUARD" \in DOMAIN output[1].dev_cards
                        <=> KeyValue(i, "LOBSTER_GUARD_IN_HAND") > 0)
                  /\ MyStatus(OnlyKeysOf(i), input.color) = output

C23_Witness ==
    /\ call = "my_status_done"
    /\ input.state.colors = <<"BLUE", "RED">>
    /\ input.color = "RED"
    /\ DOMAIN input.state.player_state
          = {<<0, "TREASURE_CHESTS">>, <<1, "LONGEST_ROAD_LENGTH">>}
    /\ output # <<>>
    /\ output[1].vp = 0
    /\ output[1].road_length = 1

\* C24: the status of a participant has a count for each of the 5 resource
\* kinds, 0 for a kind whose key is missing, and these counts add up to
\* total_resources.
C24_ResourcesAddUp ==
    call = "my_status_done" /\ output # <<>> =>
        /\ DOMAIN output[1].resources = 1..5
        /\ \A i \in PositionsOf(input.color) : \A k \in 1..5 :
              output[1].resources[k] =
                  (IF <<i, RESOURCES[k] \o "_IN_HAND">> \in DOMAIN input.state.player_state
                   THEN input.state.player_state[<<i, RESOURCES[k] \o "_IN_HAND">>]
                   ELSE 0)
        /\ output[1].total_resources
              = output[1].resources[1] + output[1].resources[2]
                + output[1].resources[3] + output[1].resources[4]
                + output[1].resources[5]

C24_Witness ==
    /\ call = "my_status_done"
    /\ input.state.colors = <<"RED">>
    /\ input.color = "RED"
    /\ DOMAIN input.state.player_state
          = {<<0, "DRIFTWOOD_IN_HAND">>, <<0, "PEARL_IN_HAND">>}
    /\ output # <<>>
    /\ output[1].resources = <<1, 0, 0, 0, 1>>
    /\ output[1].total_resources = 2

\* the positions (0-based) of the other colours, in colors order
RECURSIVE OthersFrom(_)
OthersFrom(i) ==
    IF i >= Len(input.state.colors) THEN <<>>
    ELSE (IF input.state.colors[i + 1] # input.color THEN <<i>> ELSE <<>>)
         \o OthersFrom(i + 1)

\* C25: the opponent summaries have exactly one entry per position of colors
\* whose colour is not the given one, in colors order, each computed from the
\* keys of its own position; and the per-player resource mapping has an entry
\* for every colour of the snapshot, holding the counts of that colour's
\* position.
C25_OpponentsAndAllResources ==
    /\ call = "opponents_done" =>
          /\ Len(output) = Len(OthersFrom(0))
          /\ \A k \in 1..Len(output) :
                LET i == OthersFrom(0)[k] IN
                /\ output[k].color = input.state.colors[i + 1]
                /\ output[k].color # input.color
                /\ output[k].vp = KeyValue(i, "TREASURE_CHESTS")
                /\ output[k].cards = KeyValue(i, "DRIFTWOOD_IN_HAND")
                      + KeyValue(i, "CORAL_IN_HAND") + KeyValue(i, "SHRIMP_IN_HAND")
                      + KeyValue(i, "KELP_IN_HAND") + KeyValue(i, "PEARL_IN_HAND")
                /\ output[k].dev_cards = KeyValue(i, "LOBSTER_GUARD_IN_HAND")
                /\ output[k].knights = KeyValue(i, "PLAYED_LOBSTER_GUARD")
                /\ output[k].road_length = KeyValue(i, "LONGEST_ROAD_LENGTH")
                /\ output[k].tags =
                      (IF KeyValue(i, "HAS_ROAD") # 0 THEN <<"longest_road">> ELSE <<>>)
                      \o (IF KeyValue(i, "HAS_ARMY") # 0 THEN <<"largest_army">> ELSE <<>>)
    /\ call = "all_player_resources_done" =>
          /\ DOMAIN output = {input.state.colors[i] : i \in 1..Len(input.state.colors)}
          /\ \A i \in 1..Len(input.state.colors) : \A k \in 1..5 :
                output[input.state.colors[i]][k]
                    = KeyValue(i - 1, RESOURCES[k] \o "_IN_HAND")

C25_Witness ==
    /\ call = "opponents_done"
    /\ input.state.colors = <<"ORANGE", "BLUE">>
    /\ input.color = "RED"
    /\ DOMAIN input.state.player_state
          = {<<0, "CORAL_IN_HAND">>, <<1, "TREASURE_CHESTS">>}
    /\ Len(output) = 2
    /\ output[1].color = "ORANGE" /\ output[1].cards = 1 /\ output[1].vp = 0
    /\ output[2].color = "BLUE" /\ output[2].cards = 0 /\ output[2].vp = 1

\* ===================================================================
\* Properties of the act command
\* ===================================================================
ActHasLine(kind) == \E i \in 1..Len(output.lines) : output.lines[i].kind = kind
CountOf(req) == Len(SelectSeq(output.requests, LAMBDA r : r = req))
IsRollAction == input.action = "ROLL_THE_SHELLS"
Submitted == CountOf("POST") >= 1
SubmitAccepted == ActHasLine("action_ok")
SubmitRefused == ActHasLine("error_failed")

ResourcesSectionShown ==
    \E i \in 1..Len(output.lines) :
        output.lines[i] = [kind |-> "section", title |-> "Resources Distributed"]

RollLineShown == ActHasLine("rolled") \/ ActHasLine("rolled_sum")

\* the re-fetched snapshot has a dice-roll record that carries a value
RollValueFetched ==
    \E i \in 1..Len(output.state.action_records) :
        /\ output.state.action_records[i].type = "ROLL_THE_SHELLS"
        /\ output.state.action_records[i].shape = "list3"
        /\ output.state.action_records[i].value # VNull

\* C26: the pre-action snapshot is requested exactly when the action is the
\* dice roll, and before the submission; the submission follows whether or
\* not that request succeeded; after an accepted roll the resource report
\* appears only if the snapshot was obtained, while the roll line appears
\* whenever the re-fetched records carry a roll value, with or without the
\* snapshot; no other action shows either of them.
C26_PreSnapshotForRollOnly ==
    /\ call = "act_submit" =>
          output.requests = (IF IsRollAction THEN <<"GET">> ELSE <<>>)
    /\ call \in {"act_report", "act_done"} =>
          SubSeq(output.requests, 1, IF IsRollAction THEN 2 ELSE 1)
              = (IF IsRollAction THEN <<"GET", "POST">> ELSE <<"POST">>)
    /\ ~IsRollAction => output.pre.none
    /\ call = "act_done" =>
          /\ ResourcesSectionShown =>
                IsRollAction /\ SubmitAccepted /\ ~output.pre.none
          /\ RollLineShown <=> (IsRollAction /\ output.refetched /\ RollValueFetched)

C26_Witness ==
    /\ call = "act_done"
    /\ IsRollAction
    /\ output.pre.none
    /\ output.requests = <<"GET", "POST", "GET">>
    /\ output.refetched
    /\ RollLineShown
    /\ ~ResourcesSectionShown

\* C27: the action is submitted at most once; after a refused submission no
\* further submission is made, at most the one remediation fetch follows,
\* neither the success header nor a next-step report is printed, and the exit
\* status is 1 whether the remediation fetch succeeded or failed.
C27_SubmittedAtMostOnce ==
    /\ CountOf("POST") <= 1
    /\ SubmitRefused =>
          /\ call = "act_done"
          /\ CountOf("POST") = 1
          /\ output.requests[Len(output.requests)] = "POST"
             \/ (/\ Len(output.requests) >= 2
                 /\ output.requests[Len(output.requests) - 1] = "POST"
                 /\ output.requests[Len(output.requests)] = "GET"
                 /\ ActHasLine("not_available"))
          /\ ~SubmitAccepted
          /\ output.branch = "none"
          /\ ~ActHasLine("prompt") /\ ~ActHasLine("paused_note")
          /\ ~ActHasLine("turn_not_over") /\ ~ActHasLine("turn_passed")
          /\ output.exit = 1

C27_Witness ==
    /\ call = "act_done"
    /\ SubmitRefused
    /\ ActHasLine("current_turn")
    /\ ActHasLine("bare")
    /\ ActHasLine("tip")
    /\ output.requests = <<"POST", "GET">>
    /\ output.exit = 1

\* the re-fetched snapshot lists an action that is the agent's own
HasSelfAction ==
    \E i \in 1..Len(output.state.actions) :
        \/ output.state.actions[i].shape = "other"
        \/ output.state.actions[i].color = Null
        \/ output.state.actions[i].color = input.color

ExpectedBranch ==
    IF output.state.current_color = input.color THEN "mine"
    ELSE IF HasSelfAction THEN "paused"
    ELSE IF output.state.current_prompt \in {"RELEASE_CATCH", "MOVE_THE_KRAKEN", "DISCARD"}
         THEN "interrupt"
    ELSE "passed"

\* the reports that the printed lines show
ShownReports ==
    {b \in {"mine", "paused", "interrupt", "passed"} :
        \/ b = "mine" /\ ActHasLine("prompt") /\ ~ActHasLine("paused_note")
        \/ b = "paused" /\ ActHasLine("prompt") /\ ActHasLine("paused_note")
        \/ b = "interrupt" /\ ActHasLine("turn_not_over")
        \/ b = "passed" /\ ActHasLine("turn_passed")}

GetsAfterPost ==
    Len(SelectSeq(SubSeq(output.requests, IF IsRollAction THEN 3 ELSE 2,
                         Len(output.requests)),
                  LAMBDA r : r = "GET"))

\* C28 as stated: after an accepted submission the state is re-fetched once
\* and exactly one of the four reports is printed, the first that applies of:
\* the agent's turn, turn paused, interrupt, turn passed.
C28_OneReport ==
    call = "act_done" /\ SubmitAccepted =>
        /\ GetsAfterPost = 1
        /\ ShownReports = {ExpectedBranch}

\* C28, amended: after an accepted submission the state is re-fetched once;
\* if the re-fetch succeeds exactly one of the four reports is printed, the
\* first that applies of: the agent's turn, turn paused, interrupt, turn
\* passed, and the exit status is 0; if the re-fetch fails none of them is
\* printed and the exit status is 1.
C28_OneReportAfterRefetch ==
    call = "act_done" /\ SubmitAccepted =>
        /\ GetsAfterPost = 1
        /\ output.refetched =>
              /\ ShownReports = {ExpectedBranch}
              /\ output.exit = 0
        /\ ~output.refetched =>
              /\ ShownReports = {}
              /\ output.exit = 1

C28_Witness ==
    /\ call = "act_done"
    /\ output.refetched
    /\ output.state.current_color = "BLUE"
    /\ output.state.current_prompt = "DISCARD"
    /\ output.state.actions = <<OtherAction("BLUE"), SelfAction>>
    /\ ShownReports = {"paused"}
    /\ ActHasLine("note")

\* the action renderer was called by the next-step report
RendererCalled ==
    \E i \in 1..Len(output.lines) :
        output.lines[i] = ActionLine("section", Null, 0, "Available Actions")

\* C30: the self-action test of act and the partition of the action renderer
\* pick the same actions of the re-fetched list, so whenever the next-step
\* report calls the renderer, from the agent's-turn branch or from the
\* turn-paused branch, the renderer has a self-action to show and does not
\* print the waiting line.
C30_SelfActionTestsAgree ==
    call = "act_done" /\ output.refetched =>
        /\ ActMyActions(output.state.actions, input.color)
              = MyActions(output.state.actions, input.color)
        /\ RendererCalled =>
              /\ output.branch \in {"mine", "paused"}
              /\ HasSelfAction
              /\ ~ActHasLine("waiting")
        /\ output.branch = "paused" => RendererCalled
        /\ (output.branch = "mine" /\ HasSelfAction) => RendererCalled

C30_Witness ==
    /\ call = "act_done"
    /\ output.refetched
    /\ output.branch = "paused"
    /\ output.state.actions = <<NullColorAction>>
    /\ RendererCalled
    /\ ActHasLine("count")
    /\ ~ActHasLine("waiting")

\* ===================================================================
\* The deadline of the wait poll loop
\* ===================================================================
\* C29: the deadline is looked at only after a poll that did not end the
\* wait: every wait that ends has made a status fetch, also with a timeout of
\* zero; a status that is the agent's turn ends the wait in MY_TURN and a
\* status with a winner in GAME_OVER even when the deadline has passed; a
\* not-found failure after the deadline gives NOT_FOUND; TIMEOUT is entered
\* only by a poll that failed with another error or returned a status without
\* winner that is not the agent's turn.
C29_DeadlineAfterPoll ==
    /\ [](terminal # "NONE" => nFetch >= 1)
    /\ [][ (pc = "poll" /\ now' >= deadline) =>
             /\ (lastResult'.kind = "ok" /\ lastResult'.status.winning_color # Null)
                   => terminal' = "GAME_OVER"
             /\ (lastResult'.kind = "ok" /\ lastResult'.status.winning_color = Null
                 /\ lastResult'.status.your_turn) => terminal' = "MY_TURN"
             /\ (lastResult'.kind = "error" /\ lastResult'.code = 404)
                   => terminal' = "NOT_FOUND"
             /\ terminal' = "TIMEOUT" =>
                   \/ lastResult'.kind = "error" /\ lastResult'.code # 404
                   \/ /\ lastResult'.kind = "ok"
                      /\ lastResult'.status.winning_color = Null
                      /\ ~lastResult'.status.your_turn
      ]_vars

C29_Witness ==
    /\ terminal = "MY_TURN"
    /\ deadline = 0
    /\ now > deadline
    /\ nFetch = 1
    /\ LastIsPlain
    /\ lastResult.status.your_turn
====
